---- MODULE Spec2Model ----
(***************************************************************************)
(* A model of the derive macro for `mpi::datatype::traits::Equivalence`    *)
(* (src/src/lib.rs).  The macro turns the syntax tree of a structure into  *)
(* the expression that builds its MPI datatype; the expression is run when *)
(* `equivalent_datatype()` is called.  Both halves are modelled: the macro *)
(* expansion (create_struct_datatype, get_datatype, offset_of_field) and   *)
(* the evaluation of the code the macro emits.                             *)
(***************************************************************************)
EXTENDS Integers, Sequences, FiniteSets, TLC

(* -------------------------------------------------------------------------- *)
(* Bounds of the model                                                        *)
(* -------------------------------------------------------------------------- *)

\* The number of type nodes (syn::Type values, nested ones included) in the
\* fields of the structure the macro is given.
MaxNodes == 3

\* The largest array length written in a field type.
MaxLen == 2

(* -------------------------------------------------------------------------- *)
(* Syntax trees handed to the macro (syn::Type, syn::Data)                    *)
(* -------------------------------------------------------------------------- *)

\* Types of the mpi crate that implement Equivalence themselves.
SystemTypes == {"i32", "f64"}

\* The structures of the crate that carry #[derive(Equivalence)], in source
\* order: P is expanded first, and S may hold fields of type P.
StructNames == <<"P", "S">>

UserTypes == {StructNames[i] : i \in 1..Len(StructNames)}

TypePath(p) == [kind |-> "Path", path |-> p]

TypeArray(n, e) == [kind |-> "Array", len |-> n, elem |-> e]

TypeTuple(es) == [kind |-> "Tuple", elems |-> es]

\* syn::Type variants get_datatype has no arm for: &i32 and (i32).
OtherTypes ==
    { [kind |-> k, elem |-> TypePath("i32")] : k \in {"Reference", "Paren"} }

\* A structure that held itself by value would have no finite size, and the
\* compiler rejects it: S is never a field type.
LeafTypes == {TypePath(p) : p \in SystemTypes \cup {"P"}} \cup OtherTypes

RECURSIVE TypesOfSize(_)
RECURSIVE TypeSeqsOfSize(_)
\* The types made of exactly n nodes.
TypesOfSize(n) ==
    IF n <= 0 THEN {}
    ELSE (IF n = 1 THEN LeafTypes ELSE {})
         \cup { TypeArray(l, e) : l \in 1..MaxLen, e \in TypesOfSize(n - 1) }
         \cup { TypeTuple(es) : es \in TypeSeqsOfSize(n - 1) }

\* The sequences of types made of exactly m nodes in all.
TypeSeqsOfSize(m) ==
    IF m <= 0 THEN {<< >>}
    ELSE UNION { { <<t>> \o s : t \in TypesOfSize(k), s \in TypeSeqsOfSize(m - k) }
                 : k \in 1..m }

\* The identifier of the i-th named field of a structure.
FieldIdents == <<"a", "b", "c", "d", "e", "f", "g", "h">>

FieldsNamed(ts) ==
    [data |-> "Struct", fields |-> "Named",
     named |-> [i \in 1..Len(ts) |-> [ident |-> FieldIdents[i], ty |-> ts[i]]]]

FieldsUnnamed(ts) ==
    [data |-> "Struct", fields |-> "Unnamed",
     unnamed |-> [i \in 1..Len(ts) |-> [ty |-> ts[i]]]]

FieldsUnit == [data |-> "Struct", fields |-> "Unit"]

DataEnum == [data |-> "Enum"]

DataUnion == [data |-> "Union"]

\* The syn::Data values whose fields hold exactly m type nodes.
DataOfSize(m) ==
    { FieldsNamed(ts) : ts \in TypeSeqsOfSize(m) }
    \cup { FieldsUnnamed(ts) : ts \in TypeSeqsOfSize(m) }
    \cup (IF m = 0 THEN {FieldsUnit, DataEnum, DataUnion} ELSE {})

DataBySize == [m \in 0..MaxNodes |-> DataOfSize(m)]

\* The field types of a syn::Data, in declaration order.
FieldTypes(data) ==
    IF data.data # "Struct" THEN << >>
    ELSE IF data.fields = "Named"
         THEN [i \in 1..Len(data.named) |-> data.named[i].ty]
    ELSE IF data.fields = "Unnamed"
         THEN [i \in 1..Len(data.unnamed) |-> data.unnamed[i].ty]
    ELSE << >>

\* The declaration of P: struct P { a: i32, b: f64 }.
InnerData == FieldsNamed(<<TypePath("i32"), TypePath("f64")>>)

(* -------------------------------------------------------------------------- *)
(* The macro: offset_of_field, get_datatype, create_struct_datatype           *)
(* -------------------------------------------------------------------------- *)

\* A field designator: the identifier of a named field.
FieldName(ident) == [member |-> "named", ident |-> ident]

\* A field designator: syn::Index::from(i), the position of an unnamed field.
IndexFrom(i) == [member |-> "unnamed", index |-> i]

\* unimplemented!(args): the macro panics with the message "not implemented",
\* followed by its arguments, formatted, when it is given any.
Unimplemented(args) ==
    [node |-> "panic", message |-> "not implemented", args |-> args]

IsPanic(ts) == ts.node = "panic"

\* The block of code that computes the offset of a field of a type.
offset_of_field(type_name, field_name) ==
    [block |-> "offset_of", value |-> type_name, field |-> field_name]

\* `#offset as mpi::Address`
AsAddress(offset) == [cast |-> "mpi::Address", expr |-> offset]

\* Blocklengths with the repeat count left out: `&[1]`.
BlocklengthsSingle(len) == <<1>>

\* `&[1; #len as usize]`: the array expression, by the elements it denotes.
Blocklengths(len) == [i \in 1..len |-> 1]

\* `mpi::datatype::UserDatatype::structured(#len, &[1; #len as usize],
\*  &[#(#offsets,)*], &[#(#types,)*])`
Structured(len, offsets, types) ==
    [node |-> "structured", count |-> len, blocklengths |-> Blocklengths(len),
     displacements |-> offsets, types |-> types]

\* `&mpi::datatype::UserDatatype::contiguous(#len, #element_userdatatype)`
Contiguous(len, element_userdatatype) ==
    [node |-> "contiguous", count |-> len, oldtype |-> element_userdatatype]

\* `&<#path as mpi::datatype::Equivalence>::equivalent_datatype()`
EquivalentDatatypeOf(path) == [node |-> "equivalent_datatype", path |-> path]

\* The interpolation `#(#types,)*` runs the iterator of get_datatype calls in
\* order: the first panic unwinds out of the macro, otherwise every token
\* stream is spliced in.
RECURSIVE FirstPanic(_)
FirstPanic(types) ==
    IF IsPanic(Head(types)) THEN Head(types) ELSE FirstPanic(Tail(types))

\* QuoteStructured with the children that panic left out of the splice.
QuoteStructuredSkipping(len, offsets, types) ==
    Structured(len, offsets, SelectSeq(types, LAMBDA d : ~IsPanic(d)))

QuoteStructured(len, offsets, types) ==
    IF \E i \in 1..Len(types) : IsPanic(types[i])
    THEN FirstPanic(types)
    ELSE Structured(len, offsets, types)

\* NamedOffsets with the designators of the unnamed arm: positions, not names.
NamedOffsetsByIndex(struct_name, named) ==
    [i \in 1..Len(named) |->
        AsAddress(offset_of_field(TypePath(struct_name), IndexFrom(i - 1)))]

\* NamedOffsets with the fields taken last to first.
NamedOffsetsReversed(struct_name, named) ==
    [i \in 1..Len(named) |->
        AsAddress(offset_of_field(TypePath(struct_name),
                                FieldName(named[Len(named) + 1 - i].ident)))]

\* The offsets of the fields of a structure with named fields.
NamedOffsets(struct_name, named) ==
    [i \in 1..Len(named) |->
        AsAddress(offset_of_field(TypePath(struct_name), FieldName(named[i].ident)))]

\* The offsets of the fields of a structure with unnamed fields.
UnnamedOffsets(struct_name, unnamed) ==
    [i \in 1..Len(unnamed) |->
        AsAddress(offset_of_field(TypePath(struct_name), IndexFrom(i - 1)))]

\* TupleOffsets with the elements taken last to first.
TupleOffsetsReversed(tuple) ==
    [i \in 1..Len(tuple.elems) |->
        AsAddress(offset_of_field(tuple, IndexFrom(Len(tuple.elems) - i)))]

\* The offsets of the elements of a tuple type.
TupleOffsets(tuple) ==
    [i \in 1..Len(tuple.elems) |->
        AsAddress(offset_of_field(tuple, IndexFrom(i - 1)))]

\* ArrayDatatype with an array of one element described by its element alone.
ArrayDatatypeUnwrapped(array, element_userdatatype) ==
    IF IsPanic(element_userdatatype) \/ array.len = 1 THEN element_userdatatype
    ELSE Contiguous(array.len, element_userdatatype)

\* The arm of get_datatype for an array, given the datatype of its element.
ArrayDatatype(array, element_userdatatype) ==
    IF IsPanic(element_userdatatype) THEN element_userdatatype
    ELSE Contiguous(array.len, element_userdatatype)

RECURSIVE get_datatype(_)
get_datatype(t) ==
    CASE t.kind = "Array" -> ArrayDatatype(t, get_datatype(t.elem))
      [] t.kind = "Tuple" ->
            QuoteStructured(Len(t.elems), TupleOffsets(t),
                            [i \in 1..Len(t.elems) |-> get_datatype(t.elems[i])])
      [] t.kind = "Path" -> EquivalentDatatypeOf(t.path)
      [] OTHER -> Unimplemented(<< >>)

create_struct_datatype(struct_name, data) ==
    CASE data.data = "Struct" /\ data.fields = "Named" ->
            QuoteStructured(Len(data.named),
                            NamedOffsets(struct_name, data.named),
                            [i \in 1..Len(data.named) |-> get_datatype(data.named[i].ty)])
      [] data.data = "Struct" /\ data.fields = "Unnamed" ->
            QuoteStructured(Len(data.unnamed),
                            UnnamedOffsets(struct_name, data.unnamed),
                            [i \in 1..Len(data.unnamed) |-> get_datatype(data.unnamed[i].ty)])
      [] data.data = "Struct" /\ data.fields = "Unit" -> Unimplemented(<< >>)
      [] OTHER -> Unimplemented(<<"Enums and unions are not implemented yet">>)

(* -------------------------------------------------------------------------- *)
(* The host's memory representation, which the emitted code asks for          *)
(* -------------------------------------------------------------------------- *)

\* The field layouts the compiler may choose for a structure or a tuple.
HostLayouts == {"declaration_order", "largest_alignment_first"}

\* usize arithmetic wraps; the model keeps 16 bits of it.
UsizeModulus == 2 ^ 16

\* Where the emitted block may find its local `value`.
StackAddrs == {64, 4096}

AlignUp(x, a) == ((x + a - 1) \div a) * a

SeqMax(s) == IF s = << >> THEN 1 ELSE CHOOSE m \in {s[i] : i \in 1..Len(s)} :
                                          \A i \in 1..Len(s) : s[i] <= m

\* The types of the members of an aggregate type: the elements of a tuple,
\* the declared fields of a structure.
MemberTypes(t, decls) ==
    IF t.kind = "Tuple" THEN t.elems ELSE FieldTypes(decls[t.path])

\* The position, in declaration order, of the member a designator names.
MemberIndex(t, field, decls) ==
    IF field.member = "unnamed" THEN field.index + 1
    ELSE CHOOSE i \in 1..Len(decls[t.path].named) :
            decls[t.path].named[i].ident = field.ident

RECURSIVE AlignOf(_, _)
AlignOf(t, decls) ==
    CASE t.kind = "Path" /\ t.path = "i32" -> 4
      [] t.kind = "Path" /\ t.path = "f64" -> 8
      [] t.kind = "Array" -> AlignOf(t.elem, decls)
      [] t.kind = "Tuple" \/ t.kind = "Path" ->
            SeqMax([i \in 1..Len(MemberTypes(t, decls)) |->
                        AlignOf(MemberTypes(t, decls)[i], decls)])

\* The order in which the members are laid out in memory.
LayoutOrder(ts, decls, layout) ==
    LET idx == [i \in 1..Len(ts) |-> i]
        Of(a) == SelectSeq(idx, LAMBDA i : AlignOf(ts[i], decls) = a)
    IN  IF layout = "declaration_order" THEN idx
        ELSE Of(8) \o Of(4) \o Of(1)

RECURSIVE SizeOf(_, _, _)
RECURSIVE EndOf(_, _, _, _, _)
\* The offset of the k-th member laid out.
StartOf(ts, order, k, decls, layout) ==
    AlignUp(EndOf(ts, order, k - 1, decls, layout), AlignOf(ts[order[k]], decls))

EndOf(ts, order, k, decls, layout) ==
    IF k = 0 THEN 0
    ELSE StartOf(ts, order, k, decls, layout) + SizeOf(ts[order[k]], decls, layout)

SizeOf(t, decls, layout) ==
    CASE t.kind = "Path" /\ t.path = "i32" -> 4
      [] t.kind = "Path" /\ t.path = "f64" -> 8
      [] t.kind = "Array" -> t.len * SizeOf(t.elem, decls, layout)
      [] t.kind = "Tuple" \/ t.kind = "Path" ->
            LET ts == MemberTypes(t, decls)
            IN  AlignUp(EndOf(ts, LayoutOrder(ts, decls, layout), Len(ts), decls, layout),
                        AlignOf(t, decls))

\* The distance in bytes from the start of a value of type t to its member.
FieldOffset(t, field, decls, layout) ==
    LET ts == MemberTypes(t, decls)
        order == LayoutOrder(ts, decls, layout)
        k == CHOOSE k \in 1..Len(ts) : order[k] = MemberIndex(t, field, decls)
    IN  StartOf(ts, order, k, decls, layout)

(* -------------------------------------------------------------------------- *)
(* Running the emitted code                                                   *)
(* -------------------------------------------------------------------------- *)

\* `field_loc - value_loc`, on usize.
SubUsize(field_loc, value_loc) == (field_loc - value_loc) % UsizeModulus

\* `... as mpi::Address`: the same bits, read as a signed integer.
CastAddress(u) == IF u >= UsizeModulus \div 2 THEN u - UsizeModulus ELSE u

\* RunOffsetBlock with the subtraction turned around: value_loc - field_loc.
RunOffsetBlockSwapped(b, value_loc, decls, layout) ==
    LET field_loc == (value_loc + FieldOffset(b.value, b.field, decls, layout))
                        % UsizeModulus
    IN  SubUsize(value_loc, field_loc)

\* The block offset_of_field emits, run with its local `value` at value_loc.
RunOffsetBlock(b, value_loc, decls, layout) ==
    LET field_loc == (value_loc + FieldOffset(b.value, b.field, decls, layout))
                        % UsizeModulus
    IN  SubUsize(field_loc, value_loc)

RunOffset(e, value_loc, decls, layout) ==
    CastAddress(RunOffsetBlock(e.expr, value_loc, decls, layout))

RECURSIVE RunDatatype(_, _, _, _, _)
\* The datatype the emitted expression builds.
RunDatatype(ts, value_loc, impls, decls, layout) ==
    CASE ts.node = "structured" ->
            [node |-> "structured", count |-> ts.count,
             blocklengths |-> ts.blocklengths,
             displacements |->
                [i \in 1..Len(ts.displacements) |->
                    RunOffset(ts.displacements[i], value_loc, decls, layout)],
             types |->
                [i \in 1..Len(ts.types) |->
                    RunDatatype(ts.types[i], value_loc, impls, decls, layout)]]
      [] ts.node = "contiguous" ->
            [node |-> "contiguous", count |-> ts.count,
             oldtype |-> RunDatatype(ts.oldtype, value_loc, impls, decls, layout)]
      [] ts.node = "equivalent_datatype" ->
            IF ts.path \in SystemTypes
            THEN [node |-> "system", name |-> ts.path]
            ELSE RunDatatype(impls[ts.path], value_loc, impls, decls, layout)

(* -------------------------------------------------------------------------- *)
(* The state machine: a crate is expanded structure by structure, then run    *)
(* -------------------------------------------------------------------------- *)

VARIABLES
    hostLayout,   \* the layout the compiler uses for this build
    decls,        \* the syn::Data of each structure given to the macro so far
    impls,        \* the body of equivalent_datatype() the macro emitted for each
    input,        \* the DeriveInput the macro is working on
    panicked,     \* the panic that ended the build
    called        \* the last call of equivalent_datatype() and what it returned

vars == <<hostLayout, decls, impls, input, panicked, called>>

NoDecl == [data |-> "none"]
NoImpl == [node |-> "none"]
NoInput == [ident |-> "none"]
NoPanic == [node |-> "none"]
NoCall == [of |-> "none"]

Implemented == {n \in UserTypes : impls[n] # NoImpl}

Init ==
    /\ hostLayout \in HostLayouts
    /\ decls = [n \in UserTypes |-> IF n = "P" THEN InnerData ELSE NoDecl]
    /\ impls = [n \in UserTypes |->
                    IF n = "P" THEN create_struct_datatype("P", InnerData)
                    ELSE NoImpl]
    /\ input = NoInput
    /\ panicked = NoPanic
    /\ called = NoCall

\* The compiler reaches S, which carries #[derive(Equivalence)], and hands its
\* syntax tree to the macro.
parse_macro_input ==
    /\ input = NoInput
    /\ decls["S"] = NoDecl
    /\ \E m \in 0..MaxNodes : \E data \in DataBySize[m] :
          input' = [ident |-> "S", data |-> data]
    /\ UNCHANGED <<hostLayout, decls, impls, panicked, called>>

\* derive_equivalence, from create_struct_datatype on: the impl is emitted, or
\* the macro panics and the build ends.
derive_equivalence ==
    /\ input # NoInput
    /\ LET datatype == create_struct_datatype(input.ident, input.data)
       IN  /\ decls' = [decls EXCEPT ![input.ident] = input.data]
           /\ IF IsPanic(datatype)
              THEN /\ panicked' = datatype
                   /\ impls' = impls
              ELSE /\ impls' = [impls EXCEPT ![input.ident] = datatype]
                   /\ panicked' = panicked
    /\ input' = NoInput
    /\ UNCHANGED <<hostLayout, called>>

\* The crate is built, and the program calls
\* <name as Equivalence>::equivalent_datatype().
equivalent_datatype(name, value_loc) ==
    /\ input = NoInput
    /\ panicked = NoPanic
    /\ Implemented = UserTypes
    /\ called' = [of |-> name, value_loc |-> value_loc,
                  datatype |-> RunDatatype(impls[name], value_loc, impls, decls,
                                           hostLayout)]
    /\ UNCHANGED <<hostLayout, decls, impls, input, panicked>>

Next ==
    \/ parse_macro_input
    \/ derive_equivalence
    \/ \E name \in UserTypes : \E value_loc \in StackAddrs :
          equivalent_datatype(name, value_loc)

Spec == Init /\ [][Next]_vars

\* The macro is a function the compiler runs to completion.
FairSpec == Spec /\ WF_vars(derive_equivalence)

(* -------------------------------------------------------------------------- *)
(* What the claims speak of                                                   *)
(* -------------------------------------------------------------------------- *)

\* The macro has been run on S.
Expanded == decls["S"] # NoDecl

Succeeded == Expanded /\ panicked = NoPanic

\* The types directly inside a type, and the datatypes directly inside a
\* datatype expression, in order.
ChildTypes(t) ==
    IF t.kind = "Array" THEN <<t.elem>>
    ELSE IF t.kind = "Tuple" THEN t.elems
    ELSE << >>

ChildNodes(d) ==
    IF d.node = "contiguous" THEN <<d.oldtype>>
    ELSE IF d.node = "structured" THEN d.types
    ELSE << >>

RECURSIVE SubPaths(_)
\* The positions inside a type: the sequences of child indices from its root.
SubPaths(t) ==
    {<< >>} \cup UNION { { <<i>> \o q : q \in SubPaths(ChildTypes(t)[i]) }
                         : i \in 1..Len(ChildTypes(t)) }

RECURSIVE TypeAt(_, _)
TypeAt(t, q) == IF q = << >> THEN t ELSE TypeAt(ChildTypes(t)[Head(q)], Tail(q))

RECURSIVE NodeAt(_, _)
NodeAt(d, q) == IF q = << >> THEN d ELSE NodeAt(ChildNodes(d)[Head(q)], Tail(q))

\* The (field, position) pairs of the types written in the fields of S.
Positions ==
    UNION { { <<i, q>> : q \in SubPaths(FieldTypes(decls["S"])[i]) }
            : i \in 1..Len(FieldTypes(decls["S"])) }

\* The type written at a position, and the datatype emitted for it.
TypeOf(x) == TypeAt(FieldTypes(decls["S"])[x[1]], x[2])

NodeOf(x) == NodeAt(impls["S"].types[x[1]], x[2])

AllOnes(s) == \A i \in 1..Len(s) : s[i] = 1

IsUnsupportedKind(t) == t.kind \notin {"Array", "Tuple", "Path"}

\* The types get_datatype has no arm for, anywhere in the fields of a data.
UnsupportedIn(data) ==
    { t \in UNION { { TypeAt(FieldTypes(data)[i], q) : q \in SubPaths(FieldTypes(data)[i]) }
                    : i \in 1..Len(FieldTypes(data)) } : IsUnsupportedKind(t) }

(* -------------------------------------------------------------------------- *)
(* C1                                                                         *)
(* -------------------------------------------------------------------------- *)

\* C1: for a structure with N named fields whose field types all build, the
\* macro emits one structured node with count N, N blocklengths all 1, the
\* i-th offset being offset_of_field applied to the structure and the name of
\* its i-th declared field, and the i-th type being get_datatype of the i-th
\* declared field's type: both in declaration order.
C1_NamedRecord ==
    (Expanded /\ decls["S"].data = "Struct" /\ decls["S"].fields = "Named"
       /\ \A i \in 1..Len(decls["S"].named) :
             ~IsPanic(get_datatype(decls["S"].named[i].ty)))
    => LET named == decls["S"].named
           N == Len(named)
       IN  /\ panicked = NoPanic
           /\ impls["S"].node = "structured"
           /\ impls["S"].count = N
           /\ Len(impls["S"].blocklengths) = N
           /\ AllOnes(impls["S"].blocklengths)
           /\ Len(impls["S"].displacements) = N
           /\ Len(impls["S"].types) = N
           /\ \A i \in 1..N :
                /\ impls["S"].displacements[i].expr =
                      offset_of_field(TypePath("S"), FieldName(named[i].ident))
                /\ impls["S"].types[i] = get_datatype(named[i].ty)

\* A structure with three named fields of different types has been expanded.
C1_Witness ==
    /\ Succeeded
    /\ decls["S"].data = "Struct" /\ decls["S"].fields = "Named"
    /\ Len(decls["S"].named) = 3
    /\ decls["S"].named[1].ty # decls["S"].named[2].ty
    /\ decls["S"].named[2].ty # decls["S"].named[3].ty
    /\ impls["S"].node = "structured"

(* -------------------------------------------------------------------------- *)
(* C2                                                                         *)
(* -------------------------------------------------------------------------- *)

\* C2: for a structure with N unnamed fields, and for a tuple type of N
\* elements at any depth of a field type, a successful expansion holds a
\* structured node with count N, N blocklengths all 1, the i-th offset being
\* offset_of_field applied to the structure (or to the tuple type itself) and
\* the 0-based index i, and the i-th type being get_datatype of the i-th
\* element type, in order.
C2_Positional ==
    Succeeded =>
      /\ (decls["S"].fields = "Unnamed") =>
            LET unnamed == decls["S"].unnamed
                N == Len(unnamed)
            IN  /\ impls["S"].node = "structured"
                /\ impls["S"].count = N
                /\ Len(impls["S"].blocklengths) = N
                /\ AllOnes(impls["S"].blocklengths)
                /\ Len(impls["S"].displacements) = N
                /\ Len(impls["S"].types) = N
                /\ \A i \in 1..N :
                     /\ impls["S"].displacements[i].expr =
                           offset_of_field(TypePath("S"), IndexFrom(i - 1))
                     /\ impls["S"].types[i] = get_datatype(unnamed[i].ty)
      /\ \A x \in Positions :
            (TypeOf(x).kind = "Tuple") =>
               LET tuple == TypeOf(x)
                   N == Len(tuple.elems)
                   d == NodeOf(x)
               IN  /\ d.node = "structured"
                   /\ d.count = N
                   /\ Len(d.blocklengths) = N
                   /\ AllOnes(d.blocklengths)
                   /\ Len(d.displacements) = N
                   /\ Len(d.types) = N
                   /\ \A i \in 1..N :
                        /\ d.displacements[i].expr =
                              offset_of_field(tuple, IndexFrom(i - 1))
                        /\ d.types[i] = get_datatype(tuple.elems[i])

\* A structure with one unnamed field, a tuple of two different element types,
\* has been expanded.
C2_Witness ==
    /\ Succeeded
    /\ decls["S"].fields = "Unnamed"
    /\ Len(decls["S"].unnamed) = 1
    /\ decls["S"].unnamed[1].ty.kind = "Tuple"
    /\ Len(decls["S"].unnamed[1].ty.elems) = 2
    /\ decls["S"].unnamed[1].ty.elems[1] # decls["S"].unnamed[1].ty.elems[2]
    /\ impls["S"].types[1].node = "structured"

(* -------------------------------------------------------------------------- *)
(* C3                                                                         *)
(* -------------------------------------------------------------------------- *)

\* C3: for an array type [E; L] at any depth of a field type, a successful
\* expansion holds a contiguous node with count L whose one child is
\* get_datatype(E) and which carries no offsets; the node emitted for an array
\* that differs only in its length differs only in the count.
C3_Array ==
    Succeeded =>
      \A x \in Positions :
         (TypeOf(x).kind = "Array") =>
            LET array == TypeOf(x)
                d == NodeOf(x)
            IN  /\ d.node = "contiguous"
                /\ DOMAIN d = {"node", "count", "oldtype"}
                /\ d.count = array.len
                /\ d.oldtype = get_datatype(array.elem)
                /\ \A l \in 1..MaxLen :
                      get_datatype(TypeArray(l, array.elem)) = [d EXCEPT !.count = l]

\* A structure whose field is an array of arrays or an array of tuples has
\* been expanded.
C3_Witness ==
    /\ Succeeded
    /\ \E x \in Positions :
          /\ x[2] = << >>
          /\ TypeOf(x).kind = "Array"
          /\ TypeOf(x).len = MaxLen
          /\ TypeOf(x).elem.kind \in {"Array", "Tuple"}
          /\ NodeOf(x).node = "contiguous"

(* -------------------------------------------------------------------------- *)
(* C4                                                                         *)
(* -------------------------------------------------------------------------- *)

\* A composite without fields, however it is declared.
Fieldless(data) == FieldTypes(data) = << >>

\* C4: the macro run on a fieldless structure, an enum or a union always
\* panics, and never returns a datatype expression.
C4_FieldlessRejected ==
    (Expanded /\ Fieldless(decls["S"])) =>
        (panicked # NoPanic /\ impls["S"] = NoImpl)

(* -------------------------------------------------------------------------- *)
(* C5                                                                         *)
(* -------------------------------------------------------------------------- *)

\* The designator of the i-th declared field of structure n.
Designator(n, i) ==
    IF decls[n].fields = "Named" THEN FieldName(decls[n].named[i].ident)
    ELSE IndexFrom(i - 1)

\* The address of the i-th declared field of an instance of structure n that
\* starts at address at.
FieldAddress(n, i, at) ==
    at + FieldOffset(TypePath(n), Designator(n, i), decls, hostLayout)

C5_TrueDistance ==
    (called # NoCall) =>
        /\ Len(called.datatype.displacements) = Len(FieldTypes(decls[called.of]))
        /\ \A i \in 1..Len(FieldTypes(decls[called.of])) :
              /\ called.datatype.displacements[i] \in Nat
              /\ \A at \in StackAddrs \cup {0} :
                    at + called.datatype.displacements[i]
                        = FieldAddress(called.of, i, at)

C5_SameForEveryInstance ==
    (called # NoCall /\ called' # NoCall /\ called'.of = called.of)
        => called'.datatype.displacements = called.datatype.displacements

\* C5: the offset the emitted code computes for a field of a structure is the
\* distance in bytes from the start of an instance to the start of the field
\* under the host's layout; it is a non-negative integer, and it is the same
\* whichever instance the code measured.
C5_OffsetOfField ==
    [](C5_TrueDistance) /\ [][C5_SameForEveryInstance]_vars

\* The datatype of S was built from an instance at the higher address, and a
\* field declared first does not lie first in memory.
C5_Witness ==
    /\ called # NoCall
    /\ called.of = "S"
    /\ called.value_loc = 4096
    /\ Len(called.datatype.displacements) >= 2
    /\ called.datatype.displacements[1] > called.datatype.displacements[2]

(* -------------------------------------------------------------------------- *)
(* C6                                                                         *)
(* -------------------------------------------------------------------------- *)

\* C6: the datatype of a structure has one child per field; the child for a
\* field of structure type P is the whole datatype of P, with P's own field
\* count, and every offset in it is the distance from the start of that field
\* (not from the start of the outer structure) to the inner field; likewise
\* the offsets in the child of a tuple-typed field are measured from the start
\* of the tuple.
C6_NestedRecord ==
    (called # NoCall /\ called.of = "S") =>
        LET outer == FieldTypes(decls["S"])
            at == called.value_loc
        IN  /\ Len(called.datatype.types) = Len(outer)
            /\ \A i \in 1..Len(outer) :
                 LET child == called.datatype.types[i]
                     start == FieldAddress("S", i, at)
                 IN  /\ (outer[i] = TypePath("P")) =>
                           /\ child.node = "structured"
                           /\ child.count = Len(FieldTypes(decls["P"]))
                           /\ Len(child.displacements) = child.count
                           /\ Len(child.types) = child.count
                           /\ \A k \in 1..child.count :
                                 child.displacements[k]
                                    = FieldAddress("P", k, start) - start
                     /\ (outer[i].kind = "Tuple") =>
                           /\ child.node = "structured"
                           /\ child.count = Len(outer[i].elems)
                           /\ Len(child.displacements) = child.count
                           /\ \A k \in 1..child.count :
                                 child.displacements[k]
                                    = (start + FieldOffset(outer[i], IndexFrom(k - 1),
                                                           decls, hostLayout)) - start

\* The datatype of a structure has been built whose field of type P does not
\* lie at its start, and P's own second field does not lie at P's start.
C6_Witness ==
    /\ called # NoCall
    /\ called.of = "S"
    /\ \E i \in 1..Len(FieldTypes(decls["S"])) :
          /\ FieldTypes(decls["S"])[i] = TypePath("P")
          /\ called.datatype.displacements[i] > 0
          /\ called.datatype.types[i].node = "structured"
          /\ \E k \in 1..2 : called.datatype.types[i].displacements[k] > 0

(* -------------------------------------------------------------------------- *)
(* C7                                                                         *)
(* -------------------------------------------------------------------------- *)

RECURSIVE Balanced(_)
\* Every structured node of d, at every depth, has as many offsets, child
\* datatypes and blocklengths as its count says.
Balanced(d) ==
    /\ (d.node = "structured") =>
          /\ Len(d.displacements) = d.count
          /\ Len(d.types) = d.count
          /\ Len(d.blocklengths) = d.count
    /\ \A i \in 1..Len(ChildNodes(d)) : Balanced(ChildNodes(d)[i])

\* C7: in every datatype expression the macro emits, and in every datatype
\* the emitted code builds, each structured node at each depth has as many
\* offsets as child datatypes as blocklengths as its count.
C7_Balanced ==
    /\ \A n \in Implemented : Balanced(impls[n])
    /\ (called # NoCall) => Balanced(called.datatype)

\* A datatype has been built that holds a structured node inside a structured
\* node inside its root.
C7_Witness ==
    /\ called # NoCall
    /\ called.datatype.count >= 1
    /\ \E i \in 1..Len(called.datatype.types) :
          LET c == called.datatype.types[i]
          IN  /\ c.node = "structured"
              /\ \E j \in 1..Len(c.types) :
                    c.types[j].node = "structured" /\ c.types[j].count = 2

(* -------------------------------------------------------------------------- *)
(* C8                                                                         *)
(* -------------------------------------------------------------------------- *)

\* C8: when a type in the fields, at any depth, is not an array, a tuple or a
\* type path, the macro panics and the panic names that type.
C8_NamesOffendingType ==
    (Expanded /\ UnsupportedIn(decls["S"]) # {}) =>
        /\ panicked # NoPanic
        /\ \E t \in UnsupportedIn(decls["S"]) :
              \E k \in 1..Len(panicked.args) : panicked.args[k] = t

(* -------------------------------------------------------------------------- *)
(* C9                                                                         *)
(* -------------------------------------------------------------------------- *)

RECURSIVE Covers(_, _)
\* Datatype expression d describes the whole of type t.
Covers(d, t) ==
    CASE t.kind = "Array" -> d.node = "contiguous" /\ Covers(d.oldtype, t.elem)
      [] t.kind = "Tuple" ->
            /\ d.node = "structured"
            /\ Len(d.types) = Len(t.elems)
            /\ Len(d.displacements) = Len(t.elems)
            /\ \A i \in 1..Len(t.elems) : Covers(d.types[i], t.elems[i])
      [] t.kind = "Path" -> d.node = "equivalent_datatype" /\ d.path = t.path
      [] OTHER -> FALSE

CoversData(d, data) ==
    /\ d.node = "structured"
    /\ Len(d.types) = Len(FieldTypes(data))
    /\ Len(d.displacements) = Len(FieldTypes(data))
    /\ \A i \in 1..Len(FieldTypes(data)) : Covers(d.types[i], FieldTypes(data)[i])

\* The shapes the macro has no arm for, at the top or in a field at any depth.
MustFail(data) ==
    \/ data.data # "Struct"
    \/ data.fields = "Unit"
    \/ UnsupportedIn(data) # {}

C9_AllOrNothing ==
    Expanded =>
        IF MustFail(decls["S"])
        THEN panicked # NoPanic /\ impls["S"] = NoImpl
        ELSE panicked = NoPanic /\ CoversData(impls["S"], decls["S"])

\* C9: every run of the macro ends, and it ends either with a datatype
\* expression that covers every field at every depth, or with a panic and no
\* expression at all; a type the macro cannot build, in any field, at any
\* depth and at any position among its siblings, makes the whole run panic.
C9_Terminates ==
    /\ [](C9_AllOrNothing)
    /\ (input # NoInput) ~> (input = NoInput /\ Expanded)

\* The macro panicked on a structure whose first field builds and whose second
\* field holds, below its root, a type the macro cannot build.
C9_Witness ==
    /\ Expanded
    /\ panicked # NoPanic
    /\ Len(FieldTypes(decls["S"])) = 2
    /\ ~IsPanic(get_datatype(FieldTypes(decls["S"])[1]))
    /\ ~IsUnsupportedKind(FieldTypes(decls["S"])[2])
    /\ IsPanic(get_datatype(FieldTypes(decls["S"])[2]))

====
